---- MODULE Spec2Model ----
(***************************************************************************)
(* Model of terraform-provider-cloudsqlmysql:                              *)
(*   - the audit-rule resource (internal/provider/resource_audit_rule.go): *)
(*     Create/Read/Update/Delete under auditRuleDbMutex, each statement    *)
(*     issued on the pooled handle r.db (a sql.DB), the stored-procedure   *)
(*     outcome read back from the session variables @outval/@outmsg;       *)
(*   - the grant resource's Read reconciliation                            *)
(*     (internal/provider/resource_grant_database.go);                     *)
(*   - the Confirm step auditRuleStoredProcedureResponse as a function of  *)
(*     the session variables it scans.                                     *)
(***************************************************************************)
EXTENDS Integers, Sequences, FiniteSets, TLC

\* ------------------------------------------------------------------------
\* Bounds of the model
\* ------------------------------------------------------------------------
NumProcs == 2
NumSessions == 2
MaxRules == 2
MaxId == 3

Procs == 1..NumProcs
Sessions == 1..NumSessions

\* ------------------------------------------------------------------------
\* strings.EqualFold on the strings of the model: simple case folding
\* ------------------------------------------------------------------------
ToLower(s) ==
  CASE s = "APP" -> "app"
    [] s = "SELECT" -> "select"
    [] s = "Select" -> "select"
    [] s = "INSERT" -> "insert"
    [] s = "Insert" -> "insert"
    [] s = "UPDATE" -> "update"
    [] s = "DELETE" -> "delete"
    [] s = "CREATE" -> "create"
    [] s = "DROP" -> "drop"
    [] s = "REFERENCES" -> "references"
    [] s = "INDEX" -> "index"
    [] s = "ALTER" -> "alter"
    [] s = "CREATE TEMPORARY TABLES" -> "create temporary tables"
    [] s = "LOCK TABLES" -> "lock tables"
    [] s = "CREATE VIEW" -> "create view"
    [] s = "SHOW VIEW" -> "show view"
    [] s = "CREATE ROUTINE" -> "create routine"
    [] s = "ALTER ROUTINE" -> "alter routine"
    [] s = "EXECUTE" -> "execute"
    [] s = "EVENT" -> "event"
    [] s = "TRIGGER" -> "trigger"
    [] s = "B" -> "b"
    [] OTHER -> s

EqualFold(a, b) == ToLower(a) = ToLower(b)

\* ------------------------------------------------------------------------
\* Audit-rule resource: data
\* ------------------------------------------------------------------------
\* auditRuleResourceModel without the id: the five Required attributes
MkFields(u, d, o, op, r) ==
  [User |-> u, Database |-> d, Object |-> o, Operation |-> op, OpsResult |-> r]

NoFields == MkFields("", "", "", "", "")

\* the field values the configurations of the model declare
FieldsLower == MkFields("app", "db", "t", "select", "B")
FieldsUpper == MkFields("APP", "db", "t", "SELECT", "b")
FieldsOther == MkFields("app", "db", "t", "select", "S")
PlanFields == {FieldsLower, FieldsUpper, FieldsOther}

\* the configurations of the model: every instance declared with one fixed
\* rule (instances run concurrently; neighbours differ in case only), or a
\* single instance whose rule is edited among all the field values
Configurations ==
  { [p \in Procs |-> IF p % 2 = 1 THEN {FieldsLower} ELSE {FieldsUpper}],
    [p \in Procs |-> IF p = 1 THEN PlanFields ELSE {}] }

\* types.Int64: a known value, or unknown (a Computed attribute in a plan)
KnownId(v) == [known |-> TRUE, v |-> v]
UnknownId == [known |-> FALSE, v |-> 0]

\* types.Int64.ValueInt64(): the value, 0 when unknown or null
ValueInt64(i) == IF i.known THEN i.v ELSE 0

\* the persisted state of one audit-rule resource instance
NoState == [exists |-> FALSE, Id |-> UnknownId, f |-> NoFields]
MkState(id, f) == [exists |-> TRUE, Id |-> id, f |-> f]

\* a server session variable pair (@outval, @outmsg); NULL until a call binds it
\* (each of the two variables can be NULL on its own)
NullPair == [null |-> TRUE, outval |-> 0, msgnull |-> TRUE, outmsg |-> ""]
MkPair(v, m) == [null |-> FALSE, outval |-> v, msgnull |-> FALSE, outmsg |-> m]

\* what a Go error is: none, or an error with a message
NoErr == [err |-> FALSE, msg |-> ""]
MkErr(m) == [err |-> TRUE, msg |-> m]

\* auditRuleRow
MkRow(id, f) ==
  [Id |-> id, User |-> f.User, Dbname |-> f.Database, Object |-> f.Object,
   Operation |-> f.Operation, OpResult |-> f.OpsResult]

RowFields(row) ==
  MkFields(row.User, row.Dbname, row.Object, row.Operation, row.OpResult)

VARIABLES
  cfg,               \* the configuration: per resource instance, the field
                     \* values it declares over time ({}: not declared)
  auditRuleDbMutex,  \* 0 when free, else the operation holding the lock
  pc,                \* position of each operation in its handler
  op,                \* which handler each operation runs
  plan,              \* req.Plan (Create, Update): [Id, f]
  tfstate,           \* persisted state of each resource instance
  diag,              \* resp.Diagnostics of the running operation
  sessVars,          \* per server session: the pair (@outval, @outmsg)
  rowsConn,          \* the session pinned by the open rows of Create, or 0
  listRows,          \* rows returned by the list call of Create
  rules,             \* the server's audit rules, in listing order
  nextId,            \* the id the server assigns next
  wrote,             \* history: pair written by the operation's last call
  readOut,           \* history: what each Confirm of the operation obtained
  stmts,             \* history: statements issued by the running operation
  createdId,         \* history: the id persisted by Create
  producedId,        \* history: the id of the rule the create call of the
                     \* running Create stored, 0 when it stored none
  updArgId           \* history: the id argument of the update call

audVars == <<cfg, auditRuleDbMutex, pc, op, plan, tfstate, diag, sessVars, rowsConn,
             listRows, rules, nextId, wrote, readOut, stmts, createdId,
             producedId, updArgId>>

\* the Confirm step on its own
VARIABLES
  cfPair,            \* the pair (@outval, @outmsg) on the session of the SELECT
  cfDrv,             \* whether the SELECT itself fails in the driver
  cfRet              \* the error auditRuleStoredProcedureResponse returned

cfVars == <<cfPair, cfDrv, cfRet>>

\* the grant resource
VARIABLES
  gState,            \* persisted state of the grant (databaseGrantResourceModel)
  gRow,              \* the mysql.db row of (host, principal, database)
  gDiag,             \* resp.Diagnostics of the last Read
  gDesired,          \* history: state.Privileges the last Read started from
  gObserved,         \* history: row.allPrivilegesStringValues() of the last Read
  gReads,            \* history: successful Reads since the row last changed
  gConfig,           \* the configuration of the grant, as the practitioner wrote it
  gExists,           \* whether the runtime holds a state for the grant
  gOp,               \* history: the handler the runtime invoked last
  gStmts,            \* history: the statements that handler issued
  gPriorOption       \* history: state.WithGrantOption the last Read started from

grantVars == <<gState, gRow, gDiag, gDesired, gObserved, gReads, gConfig, gExists,
               gOp, gStmts, gPriorOption>>

\* the role resource
VARIABLES
  rConfig,           \* the name the configuration gives the role, "" for none
  rState,            \* persisted state of the role (roleResourceModel)
  rServer,           \* the roles that exist on the server
  rDiag,             \* resp.Diagnostics of the handler invoked last
  rOp,               \* history: the handler the runtime invoked last
  rStmts             \* history: the statements that handler issued

roleVars == <<rConfig, rState, rServer, rDiag, rOp, rStmts>>

\* the resource type the configuration declares instances of
VARIABLES declared

declVars == <<declared>>

\* the connection registry (config.go)
VARIABLES
  dbRegistry,        \* Config.dbRegistry: per dsn the stored handle, 0 for nil
  dbRegistryMutex,   \* 0 when free, else the caller holding the lock
  regPc,             \* position of each caller in connectToMySQL
  regDsn,            \* the dsn argument of each caller's call
  regDb,             \* the local db of each caller: the handle sql.Open returned
  regRet,            \* what each caller's last call returned
  regCalls,          \* number of calls each caller has made
  handles,           \* number of handles sql.Open has created
  opened,            \* history: per dsn, the handles sql.Open created for it
  failed,            \* history: per dsn, the number of sql.Open failures
  returned           \* history: per dsn, the handles returned to callers

regVars == <<dbRegistry, dbRegistryMutex, regPc, regDsn, regDb, regRet, regCalls,
             handles, opened, failed, returned>>

vars == <<audVars, cfVars, grantVars, regVars, roleVars, declVars>>

NoPlan == [Id |-> UnknownId, f |-> NoFields]

\* ------------------------------------------------------------------------
\* Pure parts of the audit-rule handlers
\* ------------------------------------------------------------------------
\* (row *auditRuleRow) equalsModel: all five fields equal under EqualFold
equalsModelMutantNoResult(row, model) ==
  /\ EqualFold(row.User, model.User)
  /\ EqualFold(row.Dbname, model.Database)
  /\ EqualFold(row.Object, model.Object)
  /\ EqualFold(row.Operation, model.Operation)

equalsModel(row, model) ==
  /\ EqualFold(row.User, model.User)
  /\ EqualFold(row.Dbname, model.Database)
  /\ EqualFold(row.Object, model.Object)
  /\ EqualFold(row.Operation, model.Operation)
  /\ EqualFold(row.OpResult, model.OpsResult)

\* the scan loop of Create: index of the first row that equalsModel, 0 if none
FirstMatchMutantLast(rows, model) ==
  IF \E i \in 1..Len(rows) : equalsModel(rows[i], model)
  THEN CHOOSE i \in 1..Len(rows) :
         /\ equalsModel(rows[i], model)
         /\ \A j \in (i + 1)..Len(rows) : ~equalsModel(rows[j], model)
  ELSE 0

FirstMatch(rows, model) ==
  IF \E i \in 1..Len(rows) : equalsModel(rows[i], model)
  THEN CHOOSE i \in 1..Len(rows) :
         /\ equalsModel(rows[i], model)
         /\ \A j \in 1..(i - 1) : ~equalsModel(rows[j], model)
  ELSE 0

\* sql.NullInt16.Scan keeps values of 16 bits; any other value is a
\* conversion error of Scan
MinInt16 == -32768
MaxInt16 == 32767
FitsInt16(pair) == pair.null \/ (pair.outval >= MinInt16 /\ pair.outval <= MaxInt16)

\* "if outval.Int16 > 0" on the scanned NullInt16 (Int16 is 0 when NULL)
OutcomeFailedMutantAboveOne(pair) == (IF pair.null THEN 0 ELSE pair.outval) > 1

OutcomeFailedMutantNonzero(pair) == (IF pair.null THEN 0 ELSE pair.outval) # 0

OutcomeFailed(pair) == (IF pair.null THEN 0 ELSE pair.outval) > 0

\* auditRuleStoredProcedureResponse: SELECT @outval, @outmsg on some session
\* and the error it returns; drv is a driver error on the SELECT itself
auditRuleStoredProcedureResponse(pair, drv) ==
  IF drv THEN MkErr("driver")
  ELSE IF ~FitsInt16(pair) THEN MkErr("converting driver.Value: value out of range")
  ELSE IF OutcomeFailed(pair)
       THEN MkErr(IF pair.msgnull THEN "" ELSE pair.outmsg)
       ELSE NoErr

\* history record of one Confirm: the pair it read and the error it returned
Outcome(pair, drv) ==
  [drv |-> drv, pair |-> IF drv THEN NullPair ELSE pair,
   ret |-> auditRuleStoredProcedureResponse(pair, drv)]

\* the sessions the pool of r.db can run a statement on: every session not
\* pinned by rows that are still open
FreeSessions == {s \in Sessions : \A q \in Procs : rowsConn[q] # s}

OkPair == MkPair(0, "OK")
FailPair == MkPair(1, "x")

HasRule(id) == \E i \in 1..Len(rules) : rules[i].Id = id
RuleIdx(id) == CHOOSE i \in 1..Len(rules) : rules[i].Id = id

RemoveAt(seq, i) == SubSeq(seq, 1, i - 1) \o SubSeq(seq, i + 1, Len(seq))

\* ------------------------------------------------------------------------
\* Grant resource: data and pure parts (resource_grant_database.go)
\* ------------------------------------------------------------------------
MaxDesired == 2

\* the catalog of allPrivileges, in the order of its checks: the flag column
\* each check reads and the keyword it appends
Catalog ==
  << [col |-> "Select_priv", kw |-> "SELECT"],
     [col |-> "Insert_priv", kw |-> "INSERT"],
     [col |-> "Update_priv", kw |-> "UPDATE"],
     [col |-> "Delete_priv", kw |-> "DELETE"],
     [col |-> "Create_priv", kw |-> "CREATE"],
     [col |-> "Drop_priv", kw |-> "DROP"],
     [col |-> "References_priv", kw |-> "REFERENCES"],
     [col |-> "Index_priv", kw |-> "INDEX"],
     [col |-> "Alter_priv", kw |-> "ALTER"],
     [col |-> "Create_tmp_table_priv", kw |-> "CREATE TEMPORARY TABLES"],
     [col |-> "Lock_tables_priv", kw |-> "LOCK TABLES"],
     [col |-> "Create_view_priv", kw |-> "CREATE VIEW"],
     [col |-> "Show_view_priv", kw |-> "SHOW VIEW"],
     [col |-> "Create_routine_priv", kw |-> "CREATE ROUTINE"],
     [col |-> "Alter_routine_priv", kw |-> "ALTER ROUTINE"],
     [col |-> "Execute_priv", kw |-> "EXECUTE"],
     [col |-> "Event_priv", kw |-> "EVENT"],
     [col |-> "Trigger_priv", kw |-> "TRIGGER"] >>

\* the flag columns of dbRow: those of the catalog and Grant_priv
FlagCols == {Catalog[i].col : i \in 1..Len(Catalog)} \cup {"Grant_priv"}

\* the rows of the model: the columns of VaryCols take any of their values
\* (a flag can also hold a malformed "y" or be empty), every other flag is
\* "N"; and the row with every flag "Y"
VaryCols == {"Select_priv", "Insert_priv", "Update_priv", "Trigger_priv", "Grant_priv"}
FlagValues(col) ==
  IF col = "Select_priv" THEN {"Y", "N", "y"}
  ELSE IF col = "Trigger_priv" THEN {"Y", ""}
  ELSE {"Y", "N"}

AllYes == [c \in FlagCols |-> "Y"]

DbRows ==
  { [c \in FlagCols |-> IF c \in VaryCols THEN v[c] ELSE "N"] :
      v \in {w \in [VaryCols -> {"Y", "N", "y", ""}] :
               \A c \in VaryCols : w[c] \in FlagValues(c)} }
    \cup {AllYes}

\* no row for (host, principal, database)
NoRow == [present |-> FALSE, flags |-> [c \in FlagCols |-> "N"]]
MkDbRow(flags) == [present |-> TRUE, flags |-> flags]

\* selectPrivBool ... triggerPrivBool, grantPrivBool: the flag equals "Y"
PrivBoolMutantAnyCase(flags, col) == flags[col] \in {"Y", "y"}

PrivBool(flags, col) == flags[col] = "Y"

\* (dbRow *dbRow) allPrivileges: the keywords of the set flags, catalog order
RECURSIVE allPrivilegesFrom(_, _)
allPrivilegesFrom(flags, i) ==
  IF i > Len(Catalog) THEN <<>>
  ELSE (IF PrivBool(flags, Catalog[i].col) THEN <<Catalog[i].kw>> ELSE <<>>)
         \o allPrivilegesFrom(flags, i + 1)

allPrivileges(flags) == allPrivilegesFrom(flags, 1)

\* (dbRow *dbRow) withGrantOption
withGrantOptionMutantSelect(flags) == PrivBool(flags, "Select_priv")

withGrantOption(flags) == PrivBool(flags, "Grant_priv")

\* types.String of user and role: null or a value
NullString == [null |-> TRUE, s |-> ""]
StringValue(x) == [null |-> FALSE, s |-> x]

\* (m *databaseGrantResourceModel) userOrRole
userOrRole(m) ==
  IF m.User.null /\ m.Role.null
  THEN [err |-> TRUE, v |-> ""]
  ELSE IF ~m.User.null THEN [err |-> FALSE, v |-> m.User.s]
       ELSE [err |-> FALSE, v |-> m.Role.s]

\* the inner loop of Read for one rowPermission: the index of the first
\* statePermission equal to it under EqualFold, 0 when there is none
FirstStateMatch(desired, o) ==
  IF \E j \in 1..Len(desired) : EqualFold(desired[j], o)
  THEN CHOOSE j \in 1..Len(desired) :
         /\ EqualFold(desired[j], o)
         /\ \A k \in 1..(j - 1) : ~EqualFold(desired[k], o)
  ELSE 0

\* what one pass of the outer loop of Read appends for rowPermission o
reconcileOneMutantInverted(desired, o) ==
  IF \E j \in 1..Len(desired) : ~EqualFold(desired[j], o)
  THEN <<desired[CHOOSE j \in 1..Len(desired) :
                   /\ ~EqualFold(desired[j], o)
                   /\ \A k \in 1..(j - 1) : EqualFold(desired[k], o)]>>
  ELSE <<o>>

reconcileOneMutantNoFound(desired, o) ==
  IF FirstStateMatch(desired, o) # 0
  THEN <<desired[FirstStateMatch(desired, o)], o>>
  ELSE <<o>>

reconcileOneMutantObserved(desired, o) == <<o>>

reconcileOne(desired, o) ==
  IF FirstStateMatch(desired, o) # 0
  THEN <<desired[FirstStateMatch(desired, o)]>>
  ELSE <<o>>

\* the outer loop of Read: state.Privileges rebuilt from the observed list
RECURSIVE reconcileFrom(_, _, _)
reconcileFrom(desired, observed, i) ==
  IF i > Len(observed) THEN <<>>
  ELSE reconcileOne(desired, observed[i]) \o reconcileFrom(desired, observed, i + 1)

reconcile(desired, observed) == reconcileFrom(desired, observed, 1)

\* the privilege spellings configurations of the model use
DesiredNames == {"select", "SELECT", "Insert", "UPDATE", "TRIGGER"}

\* a Set attribute holds no element twice
RECURSIVE SeqsUpTo(_, _)
SeqsUpTo(S, n) ==
  IF n = 0 THEN {<<>>}
  ELSE LET shorter == SeqsUpTo(S, n - 1) IN
       shorter \cup {Append(q, x) : q \in {r \in shorter : Len(r) = n - 1}, x \in S}

NoRepeat(q) == \A i, j \in 1..Len(q) : i # j => q[i] # q[j]

DesiredLists == {q \in SeqsUpTo(DesiredNames, MaxDesired) : NoRepeat(q)}

\* the grant states a validated configuration leaves: exactly one of user, role
GrantStates ==
  { [Database |-> "db", Host |-> "%",
     User |-> IF u THEN StringValue("u") ELSE NullString,
     Role |-> IF u THEN NullString ELSE StringValue("r"),
     Privileges |-> d, WithGrantOption |-> g] :
      u \in BOOLEAN, d \in DesiredLists, g \in BOOLEAN }

IdleGrantState ==
  [Database |-> "db", Host |-> "%", User |-> StringValue("u"), Role |-> NullString,
   Privileges |-> <<>>, WithGrantOption |-> FALSE]

\* the attributes of databaseGrantResource.Schema and of roleResource.Schema:
\* whether the attribute carries the plan modifier RequiresReplace
GrantSchema ==
  [database |-> TRUE, user |-> TRUE, role |-> TRUE, host |-> TRUE,
   with_grant_option |-> TRUE, privileges |-> FALSE]

RoleSchema == [name |-> TRUE]

\* the value of an attribute of a databaseGrantResourceModel (privileges is
\* a set attribute)
GrantAttr(m, a) ==
  CASE a = "database" -> <<m.Database>>
    [] a = "user" -> <<m.User>>
    [] a = "role" -> <<m.Role>>
    [] a = "host" -> <<m.Host>>
    [] a = "with_grant_option" -> <<m.WithGrantOption>>
    [] a = "privileges" -> <<{m.Privileges[i] : i \in 1..Len(m.Privileges)}>>

\* the attributes whose planned value differs from the prior state
GrantChanged(prior, planned) ==
  {a \in DOMAIN GrantSchema : GrantAttr(prior, a) # GrantAttr(planned, a)}

\* what the runtime plans for a resource that has state: nothing, a
\* replacement (Delete, then Create) when a changed attribute carries
\* RequiresReplace, an in-place Update otherwise
PlannedAction(schema, changed) ==
  IF changed = {} THEN "none"
  ELSE IF \E a \in changed : schema[a] THEN "replace"
  ELSE "update"

\* databaseGrantResource.ConfigValidators: Conflicting(user, role) and
\* AtLeastOneOf(user, role), run by the runtime on the configuration
ConfigValidatorsMutantNoConflicting(c) ==
  IF c.User.null /\ c.Role.null
  THEN MkErr("Missing Attribute Configuration")
  ELSE NoErr

ConfigValidators(c) ==
  IF ~c.User.null /\ ~c.Role.null
  THEN MkErr("Invalid Attribute Combination")
  ELSE IF c.User.null /\ c.Role.null
       THEN MkErr("Missing Attribute Configuration")
       ELSE NoErr

\* the configurations of the grant the model uses: a base one, one per
\* attribute with that attribute changed, one with user and role both set and
\* one with neither (host and with_grant_option carry their defaults)
BaseGrantConfig ==
  [Database |-> "db", Host |-> "%", User |-> StringValue("u"), Role |-> NullString,
   Privileges |-> <<"select">>, WithGrantOption |-> FALSE]

GrantConfigs ==
  { BaseGrantConfig,
    [BaseGrantConfig EXCEPT !.Database = "db2"],
    [BaseGrantConfig EXCEPT !.Host = "h"],
    [BaseGrantConfig EXCEPT !.User = StringValue("u2")],
    [BaseGrantConfig EXCEPT !.User = NullString, !.Role = StringValue("r")],
    [BaseGrantConfig EXCEPT !.WithGrantOption = TRUE],
    [BaseGrantConfig EXCEPT !.Privileges = <<"select", "Insert">>],
    [BaseGrantConfig EXCEPT !.Role = StringValue("r")],
    [BaseGrantConfig EXCEPT !.User = NullString] }

\* the grant is not in the configuration
NoGrantConfig ==
  [Database |-> "", Host |-> "", User |-> NullString, Role |-> NullString,
   Privileges |-> <<>>, WithGrantOption |-> FALSE]

\* the server's side of "GRANT <privileges> ON db.* TO principal@host [WITH
\* GRANT OPTION]" and of "REVOKE <privileges> ON db.* FROM principal@host":
\* the flag columns the keywords name
NamedCols(privs) ==
  {Catalog[j].col : j \in {i \in 1..Len(Catalog) :
                             \E k \in 1..Len(privs) : EqualFold(privs[k], Catalog[i].kw)}}

Granted(row, m) ==
  MkDbRow([c \in FlagCols |->
             IF c \in NamedCols(m.Privileges) \/ (c = "Grant_priv" /\ m.WithGrantOption)
             THEN "Y" ELSE row.flags[c]])

Revoked(row, m) ==
  LET f == [c \in FlagCols |->
              IF c \in NamedCols(m.Privileges) THEN "N" ELSE row.flags[c]] IN
  IF \A c \in FlagCols : f[c] = "N" THEN NoRow ELSE MkDbRow(f)

\* the role names the configurations of the model use
RoleNames == {"r1", "r2"}

\* roleResourceModel, and no state
NoRoleState == [exists |-> FALSE, Name |-> ""]
MkRoleState(n) == [exists |-> TRUE, Name |-> n]

\* ------------------------------------------------------------------------
\* Connection registry: data (config.go)
\* ------------------------------------------------------------------------
NumCallers == 2
MaxCalls == 2

\* the Configure methods that run connectToMySQLDb, possibly concurrently
Callers == 1..NumCallers

\* the dbName arguments of connectToMySQLDb
DbNames == {"", "app"}

\* fmt.Sprintf(c.dsnTemplate, dbName): the text of the template with dbName
\* in the place of its verb
Sprintf(template, dbName) == <<template, dbName>>

dsnTemplate == "user:password@instance/%s"

Dsns == {Sprintf(dsnTemplate, n) : n \in DbNames}

NoDsn == <<"", "">>

\* what connectToMySQL returns: (handle, nil) or (nil, err); handle 0 is nil
NoReturn == [dsn |-> NoDsn, db |-> 0, err |-> FALSE]
MkReturn(dsn, db, err) == [dsn |-> dsn, db |-> db, err |-> err]

\* ------------------------------------------------------------------------
\* Confirm step: inputs
\* ------------------------------------------------------------------------
MaxStatus == 2

\* the values @outval can hold: NULL (below), small statuses of either sign
\* and the values around the limits of 16 bits
OutvalInputs ==
  ((0 - MaxStatus)..MaxStatus)
    \cup {MinInt16 - 1, MinInt16, MaxInt16, MaxInt16 + 1}

OutmsgInputs == {"", "x", "y"}

PairInputs ==
  { [null |-> n, outval |-> IF n THEN 0 ELSE v,
     msgnull |-> mn, outmsg |-> IF mn THEN "" ELSE m] :
      n \in BOOLEAN, v \in OutvalInputs, mn \in BOOLEAN, m \in OutmsgInputs }

NotRun == [err |-> FALSE, msg |-> "not run"]

\* ------------------------------------------------------------------------
\* Init
\* ------------------------------------------------------------------------
AudStart ==
  /\ auditRuleDbMutex = 0
  /\ pc = [p \in Procs |-> "idle"]
  /\ op = [p \in Procs |-> "none"]
  /\ plan = [p \in Procs |-> NoPlan]
  /\ tfstate = [p \in Procs |-> NoState]
  /\ diag = [p \in Procs |-> NoErr]
  /\ sessVars = [s \in Sessions |-> NullPair]
  /\ rowsConn = [p \in Procs |-> 0]
  /\ listRows = [p \in Procs |-> <<>>]
  /\ rules = <<>>
  /\ nextId = 1
  /\ wrote = [p \in Procs |-> NullPair]
  /\ readOut = [p \in Procs |-> <<>>]
  /\ stmts = [p \in Procs |-> <<>>]
  /\ createdId = [p \in Procs |-> 0]
  /\ producedId = [p \in Procs |-> 0]
  /\ updArgId = [p \in Procs |-> 0]

AudInit == cfg \in Configurations /\ AudStart

\* no audit rule declared, nothing running
IdleAudit == cfg = [p \in Procs |-> {}] /\ AudStart

IdleConfirm ==
  /\ cfPair = NullPair
  /\ cfDrv = FALSE
  /\ cfRet = NotRun

\* the history of the last handler of the grant, when none has run
NoGrantHistory ==
  /\ gDiag = NoErr
  /\ gDesired = <<>>
  /\ gObserved = <<>>
  /\ gReads = 0
  /\ gOp = "none"
  /\ gStmts = <<>>
  /\ gPriorOption = FALSE

\* the history of the grant's last handler is cleared
ClearGrantHistory ==
  /\ gDiag' = NoErr
  /\ gDesired' = <<>>
  /\ gObserved' = <<>>
  /\ gReads' = 0
  /\ gOp' = "none"
  /\ gStmts' = <<>>
  /\ gPriorOption' = FALSE

IdleGrant ==
  /\ gState = IdleGrantState
  /\ gRow = NoRow
  /\ gConfig = NoGrantConfig
  /\ gExists = FALSE
  /\ NoGrantHistory

IdleRole ==
  /\ rConfig = ""
  /\ rState = NoRoleState
  /\ rServer = {}
  /\ rDiag = NoErr
  /\ rOp = "none"
  /\ rStmts = <<>>

\* newConfig: an empty registry, nobody connecting
RegStart ==
  /\ dbRegistry = [d \in Dsns |-> 0]
  /\ dbRegistryMutex = 0
  /\ regPc = [c \in Callers |-> "idle"]
  /\ regDsn = [c \in Callers |-> NoDsn]
  /\ regDb = [c \in Callers |-> 0]
  /\ regRet = [c \in Callers |-> NoReturn]
  /\ handles = 0
  /\ opened = [d \in Dsns |-> {}]
  /\ failed = [d \in Dsns |-> 0]
  /\ returned = [d \in Dsns |-> {}]

\* no Configure will call the registry
IdleRegistry == RegStart /\ regCalls = [c \in Callers |-> MaxCalls]

\* ------------------------------------------------------------------------
\* The runtime invokes a handler on resource instance p
\* ------------------------------------------------------------------------
\* Create for an instance without state; Read, Update, Delete for one with
\* state.
Invoke(p) ==
  /\ pc[p] = "idle"
  /\ UNCHANGED <<cfVars, grantVars, regVars, roleVars, declVars>>
  /\ cfg[p] # {}
  /\ \E o \in IF tfstate[p].exists THEN {"Read", "Update", "Delete"}
                                   ELSE {"Create"} :
       op' = [op EXCEPT ![p] = o]
  /\ pc' = [pc EXCEPT ![p] = "lock"]
  /\ UNCHANGED <<cfg, auditRuleDbMutex, plan, tfstate, diag, sessVars, rowsConn,
                 listRows, rules, nextId, wrote, readOut, stmts, createdId,
                 producedId, updArgId>>

\* req.Plan.Get(ctx, &plan): the plan of Create and Update carries the five
\* configured fields; the Computed id (no plan modifier) is unknown in the
\* plan of Create and, in the plan of Update, unknown or the prior id
PlansOf(p) ==
  CASE op[p] = "Create" -> {[Id |-> UnknownId, f |-> f] : f \in cfg[p]}
    [] op[p] = "Update" ->
         {[Id |-> i, f |-> f] : i \in {UnknownId, tfstate[p].Id}, f \in cfg[p]}
    [] OTHER -> {NoPlan}

\* auditRuleDbMutex.Lock() blocks until the mutex is free; then the handler
\* reads its request
LockMutantNoWait(p) ==
  /\ pc[p] = "lock"
  /\ UNCHANGED <<cfVars, grantVars, regVars, roleVars, declVars>>
  /\ auditRuleDbMutex' = p
  /\ \E pl \in PlansOf(p) : plan' = [plan EXCEPT ![p] = pl]
  /\ pc' = [pc EXCEPT ![p] = "invoke"]
  /\ UNCHANGED <<cfg, op, tfstate, diag, sessVars, rowsConn, listRows, rules,
                 nextId, wrote, readOut, stmts, createdId, producedId, updArgId>>

Lock(p) ==
  /\ pc[p] = "lock"
  /\ UNCHANGED <<cfVars, grantVars, regVars, roleVars, declVars>>
  /\ auditRuleDbMutex = 0
  /\ auditRuleDbMutex' = p
  /\ \E pl \in PlansOf(p) : plan' = [plan EXCEPT ![p] = pl]
  /\ pc' = [pc EXCEPT ![p] = "invoke"]
  /\ UNCHANGED <<cfg, op, tfstate, diag, sessVars, rowsConn, listRows, rules,
                 nextId, wrote, readOut, stmts, createdId, producedId, updArgId>>

\* a handler returns: deferred rows.Close() and auditRuleDbMutex.Unlock()
ReturnMutantUnlocksOnSuccess(p) ==
  /\ pc[p] = "ret"
  /\ UNCHANGED <<cfVars, grantVars, regVars, roleVars, declVars>>
  /\ auditRuleDbMutex' = IF diag[p].err THEN auditRuleDbMutex ELSE 0
  /\ pc' = [pc EXCEPT ![p] = "idle"]
  /\ op' = [op EXCEPT ![p] = "none"]
  /\ plan' = [plan EXCEPT ![p] = NoPlan]
  /\ diag' = [diag EXCEPT ![p] = NoErr]
  /\ rowsConn' = [rowsConn EXCEPT ![p] = 0]
  /\ listRows' = [listRows EXCEPT ![p] = <<>>]
  /\ wrote' = [wrote EXCEPT ![p] = NullPair]
  /\ readOut' = [readOut EXCEPT ![p] = <<>>]
  /\ stmts' = [stmts EXCEPT ![p] = <<>>]
  /\ updArgId' = [updArgId EXCEPT ![p] = 0]
  /\ producedId' = [producedId EXCEPT ![p] = 0]
  /\ UNCHANGED <<cfg, tfstate, sessVars, rules, nextId, createdId>>

Return(p) ==
  /\ pc[p] = "ret"
  /\ UNCHANGED <<cfVars, grantVars, regVars, roleVars, declVars>>
  /\ auditRuleDbMutex' = 0
  /\ pc' = [pc EXCEPT ![p] = "idle"]
  /\ op' = [op EXCEPT ![p] = "none"]
  /\ plan' = [plan EXCEPT ![p] = NoPlan]
  /\ diag' = [diag EXCEPT ![p] = NoErr]
  /\ rowsConn' = [rowsConn EXCEPT ![p] = 0]
  /\ listRows' = [listRows EXCEPT ![p] = <<>>]
  /\ wrote' = [wrote EXCEPT ![p] = NullPair]
  /\ readOut' = [readOut EXCEPT ![p] = <<>>]
  /\ stmts' = [stmts EXCEPT ![p] = <<>>]
  /\ updArgId' = [updArgId EXCEPT ![p] = 0]
  /\ producedId' = [producedId EXCEPT ![p] = 0]
  /\ UNCHANGED <<cfg, tfstate, sessVars, rules, nextId, createdId>>

\* ------------------------------------------------------------------------
\* Create (resource_audit_rule.go:68-155)
\* ------------------------------------------------------------------------
\* CALL mysql.cloudsql_create_audit_rule(...) through r.db.ExecContext.
\* The procedure stores the rule and binds status 0, or binds status 0
\* without storing it, or binds status 1; or the driver reports an error.
CreateInvoke(p) ==
  /\ pc[p] = "invoke" /\ op[p] = "Create"
  /\ UNCHANGED <<cfVars, grantVars, regVars, roleVars, declVars>>
  /\ stmts' = [stmts EXCEPT ![p] = Append(@, "create")]
  /\ \/ /\ diag' = [diag EXCEPT ![p] = MkErr("driver")]
        /\ pc' = [pc EXCEPT ![p] = "ret"]
        /\ producedId' = [producedId EXCEPT ![p] = 0]
        /\ UNCHANGED <<sessVars, rules, nextId, wrote>>
     \/ \E s \in FreeSessions :
          /\ \/ /\ Len(rules) < MaxRules /\ nextId <= MaxId
                /\ rules' = Append(rules, MkRow(nextId, plan[p].f))
                /\ nextId' = nextId + 1
                /\ producedId' = [producedId EXCEPT ![p] = nextId]
                /\ sessVars' = [sessVars EXCEPT ![s] = OkPair]
                /\ wrote' = [wrote EXCEPT ![p] = OkPair]
             \/ /\ sessVars' = [sessVars EXCEPT ![s] = OkPair]
                /\ wrote' = [wrote EXCEPT ![p] = OkPair]
                /\ producedId' = [producedId EXCEPT ![p] = 0]
                /\ UNCHANGED <<rules, nextId>>
             \/ /\ sessVars' = [sessVars EXCEPT ![s] = FailPair]
                /\ wrote' = [wrote EXCEPT ![p] = FailPair]
                /\ producedId' = [producedId EXCEPT ![p] = 0]
                /\ UNCHANGED <<rules, nextId>>
          /\ pc' = [pc EXCEPT ![p] = "confirm"]
          /\ diag' = diag
  /\ UNCHANGED <<cfg, auditRuleDbMutex, op, plan, tfstate, rowsConn, listRows,
                 readOut, createdId, updArgId>>

\* err = r.auditRuleStoredProcedureResponse(ctx) after the create call
CreateConfirmMutantRetries(p) ==
  /\ pc[p] = "confirm" /\ op[p] = "Create"
  /\ UNCHANGED <<cfVars, grantVars, regVars, roleVars, declVars>>
  /\ stmts' = [stmts EXCEPT ![p] = Append(@, "confirm")]
  /\ \E s \in FreeSessions, drv \in BOOLEAN :
       LET err == auditRuleStoredProcedureResponse(sessVars[s], drv)
           again == err.err /\ Len(stmts[p]) < 2 IN
       /\ readOut' = [readOut EXCEPT ![p] = Append(@, Outcome(sessVars[s], drv))]
       /\ diag' = [diag EXCEPT ![p] = IF again THEN NoErr ELSE err]
       /\ pc' = [pc EXCEPT ![p] = IF again THEN "invoke"
                                  ELSE IF err.err THEN "ret" ELSE "list"]
  /\ UNCHANGED <<cfg, auditRuleDbMutex, op, plan, tfstate, sessVars, rowsConn,
                 listRows, rules, nextId, wrote, createdId, producedId, updArgId>>

CreateConfirm(p) ==
  /\ pc[p] = "confirm" /\ op[p] = "Create"
  /\ UNCHANGED <<cfVars, grantVars, regVars, roleVars, declVars>>
  /\ stmts' = [stmts EXCEPT ![p] = Append(@, "confirm")]
  /\ \E s \in FreeSessions, drv \in BOOLEAN :
       LET err == auditRuleStoredProcedureResponse(sessVars[s], drv) IN
       /\ readOut' = [readOut EXCEPT ![p] = Append(@, Outcome(sessVars[s], drv))]
       /\ diag' = [diag EXCEPT ![p] = err]
       /\ pc' = [pc EXCEPT ![p] = IF err.err THEN "ret" ELSE "list"]
  /\ UNCHANGED <<cfg, auditRuleDbMutex, op, plan, tfstate, sessVars, rowsConn,
                 listRows, rules, nextId, wrote, createdId, producedId, updArgId>>

\* rows, err := r.db.QueryContext(ctx, "CALL mysql.cloudsql_list_audit_rule('*',..)")
\* the rows stay open (defer rows.Close()), so their session stays pinned
CreateList(p) ==
  /\ pc[p] = "list" /\ op[p] = "Create"
  /\ UNCHANGED <<cfVars, grantVars, regVars, roleVars, declVars>>
  /\ stmts' = [stmts EXCEPT ![p] = Append(@, "list")]
  /\ \/ /\ diag' = [diag EXCEPT ![p] = MkErr("driver")]
        /\ pc' = [pc EXCEPT ![p] = "ret"]
        /\ UNCHANGED <<sessVars, rowsConn, listRows, wrote>>
     \/ \E s \in FreeSessions :
          /\ \/ /\ listRows' = [listRows EXCEPT ![p] = rules]
                /\ sessVars' = [sessVars EXCEPT ![s] = OkPair]
                /\ wrote' = [wrote EXCEPT ![p] = OkPair]
             \/ /\ listRows' = [listRows EXCEPT ![p] = <<>>]
                /\ sessVars' = [sessVars EXCEPT ![s] = FailPair]
                /\ wrote' = [wrote EXCEPT ![p] = FailPair]
          /\ rowsConn' = [rowsConn EXCEPT ![p] = s]
          /\ pc' = [pc EXCEPT ![p] = "listConfirm"]
          /\ diag' = diag
  /\ UNCHANGED <<cfg, auditRuleDbMutex, op, plan, tfstate, rules, nextId, readOut,
                 createdId, producedId, updArgId>>

\* err = r.auditRuleStoredProcedureResponse(ctx) after the list call
CreateListConfirm(p) ==
  /\ pc[p] = "listConfirm" /\ op[p] = "Create"
  /\ UNCHANGED <<cfVars, grantVars, regVars, roleVars, declVars>>
  /\ stmts' = [stmts EXCEPT ![p] = Append(@, "confirm")]
  /\ \E s \in FreeSessions, drv \in BOOLEAN :
       LET err == auditRuleStoredProcedureResponse(sessVars[s], drv) IN
       /\ readOut' = [readOut EXCEPT ![p] = Append(@, Outcome(sessVars[s], drv))]
       /\ diag' = [diag EXCEPT ![p] = err]
       /\ pc' = [pc EXCEPT ![p] = IF err.err THEN "ret" ELSE "scan"]
  /\ UNCHANGED <<cfg, auditRuleDbMutex, op, plan, tfstate, sessVars, rowsConn,
                 listRows, rules, nextId, wrote, createdId, producedId, updArgId>>

\* the scan loop, the id == -1 test and resp.State.Set(ctx, plan);
\* k > 0: rows.Scan fails at row k, which the loop reaches only when no
\* earlier row matched
CreateCorrelate(p) ==
  /\ pc[p] = "scan" /\ op[p] = "Create"
  /\ UNCHANGED <<cfVars, grantVars, regVars, roleVars, declVars>>
  /\ LET m == FirstMatch(listRows[p], plan[p].f) IN
     \E k \in 0..Len(listRows[p]) :
       /\ k > 0 => (m = 0 \/ k <= m)
       /\ IF k > 0
          THEN /\ diag' = [diag EXCEPT ![p] = MkErr("scan")]
               /\ UNCHANGED <<tfstate, createdId>>
          ELSE IF m = 0
          THEN /\ diag' = [diag EXCEPT ![p] =
                             MkErr("the audit rule is not found after creation")]
               /\ UNCHANGED <<tfstate, createdId>>
          ELSE /\ tfstate' = [tfstate EXCEPT ![p] =
                                MkState(KnownId(listRows[p][m].Id), plan[p].f)]
               /\ createdId' = [createdId EXCEPT ![p] = listRows[p][m].Id]
               /\ diag' = diag
  /\ pc' = [pc EXCEPT ![p] = "ret"]
  /\ UNCHANGED <<cfg, auditRuleDbMutex, op, plan, sessVars, rowsConn, listRows,
                 rules, nextId, wrote, readOut, stmts, producedId, updArgId>>

\* ------------------------------------------------------------------------
\* Read (resource_audit_rule.go:157-203)
\* ------------------------------------------------------------------------
\* QueryRowContext("CALL mysql.cloudsql_list_audit_rule(?,..)", id).Scan(...):
\* the row of the rule with that id, or no row (sql.ErrNoRows), or a driver
\* error; Row.Scan closes the rows, so no session stays pinned
ReadQuery(p) ==
  /\ pc[p] = "invoke" /\ op[p] = "Read"
  /\ UNCHANGED <<cfVars, grantVars, regVars, roleVars, declVars>>
  /\ stmts' = [stmts EXCEPT ![p] = Append(@, "listid")]
  /\ LET id == ValueInt64(tfstate[p].Id) IN
     \/ /\ diag' = [diag EXCEPT ![p] = MkErr("driver")]
        /\ pc' = [pc EXCEPT ![p] = "ret"]
        /\ UNCHANGED <<sessVars, listRows, wrote>>
     \/ \E s \in FreeSessions :
          \/ /\ HasRule(id)
             /\ listRows' = [listRows EXCEPT ![p] = <<rules[RuleIdx(id)]>>]
             /\ sessVars' = [sessVars EXCEPT ![s] = OkPair]
             /\ wrote' = [wrote EXCEPT ![p] = OkPair]
             /\ pc' = [pc EXCEPT ![p] = "confirm"]
             /\ diag' = diag
          \/ /\ \E out \in {OkPair, FailPair} :
                  /\ out = OkPair => ~HasRule(id)
                  /\ sessVars' = [sessVars EXCEPT ![s] = out]
                  /\ wrote' = [wrote EXCEPT ![p] = out]
             /\ diag' = [diag EXCEPT ![p] = MkErr("sql: no rows in result set")]
             /\ pc' = [pc EXCEPT ![p] = "ret"]
             /\ listRows' = listRows
  /\ UNCHANGED <<cfg, auditRuleDbMutex, op, plan, tfstate, rowsConn, rules, nextId,
                 readOut, createdId, producedId, updArgId>>

\* Confirm, then state = the scanned row, resp.State.Set(ctx, &state)
ReadConfirm(p) ==
  /\ pc[p] = "confirm" /\ op[p] = "Read"
  /\ UNCHANGED <<cfVars, grantVars, regVars, roleVars, declVars>>
  /\ stmts' = [stmts EXCEPT ![p] = Append(@, "confirm")]
  /\ \E s \in FreeSessions, drv \in BOOLEAN :
       LET err == auditRuleStoredProcedureResponse(sessVars[s], drv)
           row == listRows[p][1] IN
       /\ readOut' = [readOut EXCEPT ![p] = Append(@, Outcome(sessVars[s], drv))]
       /\ diag' = [diag EXCEPT ![p] = err]
       /\ tfstate' = IF err.err THEN tfstate
                     ELSE [tfstate EXCEPT ![p] =
                             MkState(KnownId(row.Id), RowFields(row))]
  /\ pc' = [pc EXCEPT ![p] = "ret"]
  /\ UNCHANGED <<cfg, auditRuleDbMutex, op, plan, sessVars, rowsConn, listRows,
                 rules, nextId, wrote, createdId, producedId, updArgId>>

\* ------------------------------------------------------------------------
\* Update (resource_audit_rule.go:205-246)
\* ------------------------------------------------------------------------
\* CALL mysql.cloudsql_update_audit_rule(plan.Id.ValueInt64(), ...)
UpdateInvoke(p) ==
  /\ pc[p] = "invoke" /\ op[p] = "Update"
  /\ UNCHANGED <<cfVars, grantVars, regVars, roleVars, declVars>>
  /\ stmts' = [stmts EXCEPT ![p] = Append(@, "update")]
  /\ LET id == ValueInt64(plan[p].Id) IN
     /\ updArgId' = [updArgId EXCEPT ![p] = id]
     /\ \/ /\ diag' = [diag EXCEPT ![p] = MkErr("driver")]
           /\ pc' = [pc EXCEPT ![p] = "ret"]
           /\ UNCHANGED <<sessVars, rules, wrote>>
        \/ \E s \in FreeSessions :
             /\ \/ /\ HasRule(id)
                   /\ rules' = [rules EXCEPT ![RuleIdx(id)] =
                                  MkRow(id, plan[p].f)]
                   /\ sessVars' = [sessVars EXCEPT ![s] = OkPair]
                   /\ wrote' = [wrote EXCEPT ![p] = OkPair]
                \/ /\ sessVars' = [sessVars EXCEPT ![s] = OkPair]
                   /\ wrote' = [wrote EXCEPT ![p] = OkPair]
                   /\ rules' = rules
                \/ /\ sessVars' = [sessVars EXCEPT ![s] = FailPair]
                   /\ wrote' = [wrote EXCEPT ![p] = FailPair]
                   /\ rules' = rules
             /\ pc' = [pc EXCEPT ![p] = "confirm"]
             /\ diag' = diag
  /\ UNCHANGED <<cfg, auditRuleDbMutex, op, plan, tfstate, rowsConn, listRows,
                 nextId, readOut, createdId, producedId>>

\* Confirm, then resp.State.Set(ctx, &plan)
UpdateConfirmMutantSetsStateFirst(p) ==
  /\ pc[p] = "confirm" /\ op[p] = "Update"
  /\ UNCHANGED <<cfVars, grantVars, regVars, roleVars, declVars>>
  /\ stmts' = [stmts EXCEPT ![p] = Append(@, "confirm")]
  /\ \E s \in FreeSessions, drv \in BOOLEAN :
       LET err == auditRuleStoredProcedureResponse(sessVars[s], drv) IN
       /\ readOut' = [readOut EXCEPT ![p] = Append(@, Outcome(sessVars[s], drv))]
       /\ diag' = [diag EXCEPT ![p] = err]
       /\ tfstate' = [tfstate EXCEPT ![p] = MkState(plan[p].Id, plan[p].f)]
  /\ pc' = [pc EXCEPT ![p] = "ret"]
  /\ UNCHANGED <<cfg, auditRuleDbMutex, op, plan, sessVars, rowsConn, listRows,
                 rules, nextId, wrote, createdId, producedId, updArgId>>

UpdateConfirm(p) ==
  /\ pc[p] = "confirm" /\ op[p] = "Update"
  /\ UNCHANGED <<cfVars, grantVars, regVars, roleVars, declVars>>
  /\ stmts' = [stmts EXCEPT ![p] = Append(@, "confirm")]
  /\ \E s \in FreeSessions, drv \in BOOLEAN :
       LET err == auditRuleStoredProcedureResponse(sessVars[s], drv) IN
       /\ readOut' = [readOut EXCEPT ![p] = Append(@, Outcome(sessVars[s], drv))]
       /\ diag' = [diag EXCEPT ![p] = err]
       /\ tfstate' = IF err.err THEN tfstate
                     ELSE [tfstate EXCEPT ![p] =
                             MkState(plan[p].Id, plan[p].f)]
  /\ pc' = [pc EXCEPT ![p] = "ret"]
  /\ UNCHANGED <<cfg, auditRuleDbMutex, op, plan, sessVars, rowsConn, listRows,
                 rules, nextId, wrote, createdId, producedId, updArgId>>

\* ------------------------------------------------------------------------
\* Delete (resource_audit_rule.go:248-278)
\* ------------------------------------------------------------------------
\* CALL mysql.cloudsql_delete_audit_rule(state.Id.ValueInt64(), ...)
DeleteInvoke(p) ==
  /\ pc[p] = "invoke" /\ op[p] = "Delete"
  /\ UNCHANGED <<cfVars, grantVars, regVars, roleVars, declVars>>
  /\ stmts' = [stmts EXCEPT ![p] = Append(@, "delete")]
  /\ LET id == ValueInt64(tfstate[p].Id) IN
     \/ /\ diag' = [diag EXCEPT ![p] = MkErr("driver")]
        /\ pc' = [pc EXCEPT ![p] = "ret"]
        /\ UNCHANGED <<sessVars, rules, wrote>>
     \/ \E s \in FreeSessions :
          /\ \/ /\ HasRule(id)
                /\ rules' = RemoveAt(rules, RuleIdx(id))
                /\ sessVars' = [sessVars EXCEPT ![s] = OkPair]
                /\ wrote' = [wrote EXCEPT ![p] = OkPair]
             \/ /\ sessVars' = [sessVars EXCEPT ![s] = FailPair]
                /\ wrote' = [wrote EXCEPT ![p] = FailPair]
                /\ rules' = rules
          /\ pc' = [pc EXCEPT ![p] = "confirm"]
          /\ diag' = diag
  /\ UNCHANGED <<cfg, auditRuleDbMutex, op, plan, tfstate, rowsConn, listRows,
                 nextId, readOut, createdId, producedId, updArgId>>

\* Confirm; a Delete that returns without error has its state removed by
\* the runtime
DeleteConfirm(p) ==
  /\ pc[p] = "confirm" /\ op[p] = "Delete"
  /\ UNCHANGED <<cfVars, grantVars, regVars, roleVars, declVars>>
  /\ stmts' = [stmts EXCEPT ![p] = Append(@, "confirm")]
  /\ \E s \in FreeSessions, drv \in BOOLEAN :
       LET err == auditRuleStoredProcedureResponse(sessVars[s], drv) IN
       /\ readOut' = [readOut EXCEPT ![p] = Append(@, Outcome(sessVars[s], drv))]
       /\ diag' = [diag EXCEPT ![p] = err]
       /\ tfstate' = IF err.err THEN tfstate
                     ELSE [tfstate EXCEPT ![p] = NoState]
       /\ createdId' = IF err.err THEN createdId
                       ELSE [createdId EXCEPT ![p] = 0]
  /\ pc' = [pc EXCEPT ![p] = "ret"]
  /\ UNCHANGED <<cfg, auditRuleDbMutex, op, plan, sessVars, rowsConn, listRows,
                 rules, nextId, wrote, producedId, updArgId>>

\* ------------------------------------------------------------------------
\* The steps of the audit-rule resource
\* ------------------------------------------------------------------------
AuditNext ==
  \E p \in Procs :
    \/ Invoke(p)
    \/ Lock(p)
    \/ CreateInvoke(p)
    \/ CreateConfirm(p)
    \/ CreateList(p)
    \/ CreateListConfirm(p)
    \/ CreateCorrelate(p)
    \/ ReadQuery(p)
    \/ ReadConfirm(p)
    \/ UpdateInvoke(p)
    \/ UpdateConfirm(p)
    \/ DeleteInvoke(p)
    \/ DeleteConfirm(p)
    \/ Return(p)

\* ------------------------------------------------------------------------
\* Specification of the Confirm step on every pair of session variables
\* ------------------------------------------------------------------------
ConfirmInit ==
  /\ IdleAudit /\ IdleGrant /\ IdleRegistry /\ IdleRole
  /\ declared = "none"
  /\ cfPair \in PairInputs
  /\ cfDrv \in BOOLEAN
  /\ cfRet = NotRun

\* err := r.auditRuleStoredProcedureResponse(ctx)
ConfirmRun ==
  /\ cfRet = NotRun
  /\ cfRet' = auditRuleStoredProcedureResponse(cfPair, cfDrv)
  /\ UNCHANGED <<cfPair, cfDrv, audVars, grantVars, regVars, roleVars, declVars>>

ConfirmNext == ConfirmRun

ConfirmSpec == ConfirmInit /\ [][ConfirmNext]_vars

\* ------------------------------------------------------------------------
\* Specification of the grant resource
\* ------------------------------------------------------------------------
GrantInit ==
  /\ IdleAudit /\ IdleConfirm /\ IdleRegistry /\ IdleRole
  /\ declared = "grant_database"
  /\ gState \in GrantStates
  /\ gRow \in {NoRow} \cup {MkDbRow(f) : f \in DbRows}
  /\ gConfig = BaseGrantConfig
  /\ gExists = TRUE
  /\ NoGrantHistory

\* databaseGrantResource.Read: userOrRole, the SELECT on mysql.db and its
\* Scan, the reconciliation loop, withGrantOption, resp.State.Set
GrantRead ==
  /\ gExists
  /\ gOp' = "Read"
  /\ LET ur == userOrRole(gState) IN
     IF ur.err
     THEN /\ gDiag' = MkErr("user nor role are not filled in")
          /\ gStmts' = <<>>
          /\ UNCHANGED <<gState, gDesired, gObserved, gReads, gPriorOption>>
     ELSE /\ gStmts' = <<"SELECT">>
          /\ \/ /\ gDiag' = MkErr("driver")
                /\ UNCHANGED <<gState, gDesired, gObserved, gReads, gPriorOption>>
             \/ /\ ~gRow.present
                /\ gDiag' = MkErr("sql: no rows in result set")
                /\ UNCHANGED <<gState, gDesired, gObserved, gReads, gPriorOption>>
             \/ /\ gRow.present
                /\ LET observed == allPrivileges(gRow.flags) IN
                   /\ gState' = [gState EXCEPT
                                   !.Privileges = reconcile(gState.Privileges, observed),
                                   !.WithGrantOption = withGrantOption(gRow.flags)]
                   /\ gDesired' = gState.Privileges
                   /\ gObserved' = observed
                /\ gPriorOption' = gState.WithGrantOption
                /\ gDiag' = NoErr
                /\ gReads' = IF gReads < 2 THEN gReads + 1 ELSE gReads
  /\ UNCHANGED <<gRow, gConfig, gExists>>
  /\ UNCHANGED <<audVars, cfVars, regVars, roleVars, declVars>>

\* another client grants or revokes: the row the SELECT of Read will see
\* changes (the history of the last Read is about the row as it was: cleared)
GrantRowChange ==
  /\ \E r \in {NoRow} \cup {MkDbRow(f) : f \in DbRows} :
       /\ r # gRow
       /\ gRow' = r
  /\ ClearGrantHistory
  /\ UNCHANGED <<gState, gConfig, gExists>>
  /\ UNCHANGED <<audVars, cfVars, regVars, roleVars, declVars>>

GrantNext == GrantRead \/ GrantRowChange

GrantSpec == GrantInit /\ [][GrantNext]_vars

\* ------------------------------------------------------------------------
\* The grant resource over its life (resource_grant_database.go)
\* ------------------------------------------------------------------------
\* the practitioner edits the configuration of the grant, or removes it
GrantEdit ==
  /\ declared = "grant_database"
  /\ \E c \in (GrantConfigs \cup {NoGrantConfig}) \ {gConfig} : gConfig' = c
  /\ ClearGrantHistory
  /\ UNCHANGED <<gState, gRow, gExists>>
  /\ UNCHANGED <<audVars, cfVars, regVars, roleVars, declVars>>

\* the runtime creates the grant: it validates the configuration
\* (ConfigValidators) and, when that passes, invokes Create with the plan:
\* userOrRole, the GRANT statement through ExecContext, resp.State.Set
GrantCreate ==
  /\ gConfig # NoGrantConfig /\ ~gExists
  /\ gOp' = "Create"
  /\ LET planned == gConfig
         valid == ConfigValidators(gConfig)
         ur == userOrRole(planned) IN
     IF valid.err
     THEN /\ gDiag' = valid
          /\ gStmts' = <<>>
          /\ UNCHANGED <<gState, gRow, gExists>>
     ELSE IF ur.err
     THEN /\ gDiag' = MkErr("user nor role are not filled in")
          /\ gStmts' = <<>>
          /\ UNCHANGED <<gState, gRow, gExists>>
     ELSE /\ gStmts' = <<"GRANT">>
          /\ \/ /\ gDiag' = MkErr("driver")
                /\ UNCHANGED <<gState, gRow, gExists>>
             \/ /\ \E base \in {NoRow, gRow} : gRow' = Granted(base, planned)
                /\ gState' = planned
                /\ gExists' = TRUE
                /\ gDiag' = NoErr
  /\ gDesired' = <<>> /\ gObserved' = <<>> /\ gReads' = 0 /\ gPriorOption' = FALSE
  /\ UNCHANGED gConfig
  /\ UNCHANGED <<audVars, cfVars, regVars, roleVars, declVars>>

\* the runtime plans an in-place update (no changed attribute carries
\* RequiresReplace) and invokes Update, whose body is empty
GrantUpdate ==
  /\ gExists
  /\ gConfig # NoGrantConfig /\ ~ConfigValidators(gConfig).err
  /\ PlannedAction(GrantSchema, GrantChanged(gState, gConfig)) = "update"
  /\ gOp' = "Update"
  /\ gStmts' = <<>>
  /\ gDiag' = NoErr
  /\ UNCHANGED <<gState, gRow, gExists, gConfig, gDesired, gObserved, gReads,
                 gPriorOption>>
  /\ UNCHANGED <<audVars, cfVars, regVars, roleVars, declVars>>

\* the runtime destroys the grant (removed from the configuration, or being
\* replaced) and invokes Delete: userOrRole, the REVOKE statement through
\* ExecContext; a Delete that returns without error has its state removed
GrantDelete ==
  /\ gExists
  /\ \/ gConfig = NoGrantConfig
     \/ /\ ~ConfigValidators(gConfig).err
        /\ PlannedAction(GrantSchema, GrantChanged(gState, gConfig)) = "replace"
  /\ gOp' = "Delete"
  /\ LET ur == userOrRole(gState) IN
     IF ur.err
     THEN /\ gDiag' = MkErr("user nor role are not filled in")
          /\ gStmts' = <<>>
          /\ UNCHANGED <<gState, gRow, gExists>>
     ELSE /\ gStmts' = <<"REVOKE">>
          /\ \/ /\ gDiag' = MkErr("driver")
                /\ UNCHANGED <<gState, gRow, gExists>>
             \/ /\ gRow.present /\ gState.Privileges # <<>>
                /\ gRow' = Revoked(gRow, gState)
                /\ gState' = IdleGrantState
                /\ gExists' = FALSE
                /\ gDiag' = NoErr
  /\ gDesired' = <<>> /\ gObserved' = <<>> /\ gReads' = 0 /\ gPriorOption' = FALSE
  /\ UNCHANGED gConfig
  /\ UNCHANGED <<audVars, cfVars, regVars, roleVars, declVars>>

\* ------------------------------------------------------------------------
\* The role resource over its life (resource_role.go)
\* ------------------------------------------------------------------------
\* the practitioner names, renames or removes the role in the configuration
RoleEdit ==
  /\ declared = "role"
  /\ \E n \in (RoleNames \cup {""}) \ {rConfig} : rConfig' = n
  /\ rOp' = "none" /\ rStmts' = <<>> /\ rDiag' = NoErr
  /\ UNCHANGED <<rState, rServer>>
  /\ UNCHANGED <<audVars, cfVars, regVars, grantVars, declVars>>

\* another client drops a role on the server
RoleDropped ==
  /\ declared = "role"
  /\ \E n \in rServer : rServer' = rServer \ {n}
  /\ rOp' = "none" /\ rStmts' = <<>> /\ rDiag' = NoErr
  /\ UNCHANGED <<rConfig, rState>>
  /\ UNCHANGED <<audVars, cfVars, regVars, grantVars, declVars>>

\* roleResource.Create: CREATE ROLE through ExecContext, resp.State.Set
RoleCreate ==
  /\ rConfig # "" /\ ~rState.exists
  /\ rOp' = "Create"
  /\ rStmts' = <<"CREATE ROLE">>
  /\ \/ /\ rDiag' = MkErr("driver")
        /\ UNCHANGED <<rState, rServer>>
     \/ /\ rConfig \notin rServer
        /\ rServer' = rServer \cup {rConfig}
        /\ rState' = MkRoleState(rConfig)
        /\ rDiag' = NoErr
  /\ UNCHANGED rConfig
  /\ UNCHANGED <<audVars, cfVars, regVars, grantVars, declVars>>

\* roleResource.Read: SHOW GRANTS through QueryContext; no first row is
\* "Role not found"; otherwise resp.State.Set with the state as it was
RoleRead ==
  /\ rState.exists
  /\ rOp' = "Read"
  /\ rStmts' = <<"SHOW GRANTS">>
  /\ \/ rDiag' = MkErr("driver")
     \/ rDiag' = MkErr("Role not found")
     \/ /\ rState.Name \in rServer
        /\ rDiag' = NoErr
  /\ UNCHANGED <<rConfig, rState, rServer>>
  /\ UNCHANGED <<audVars, cfVars, regVars, grantVars, declVars>>

\* roleResource.Delete (the role is removed from the configuration, or
\* renamed and so replaced): DROP ROLE through ExecContext
RoleDelete ==
  /\ rState.exists
  /\ \/ rConfig = ""
     \/ PlannedAction(RoleSchema,
                      IF rConfig # rState.Name THEN {"name"} ELSE {}) = "replace"
  /\ rOp' = "Delete"
  /\ rStmts' = <<"DROP ROLE">>
  /\ \/ /\ rDiag' = MkErr("driver")
        /\ UNCHANGED <<rState, rServer>>
     \/ /\ rState.Name \in rServer
        /\ rServer' = rServer \ {rState.Name}
        /\ rState' = NoRoleState
        /\ rDiag' = NoErr
  /\ UNCHANGED rConfig
  /\ UNCHANGED <<audVars, cfVars, regVars, grantVars, declVars>>

\* ------------------------------------------------------------------------
\* Specification of the grant and the role over their lives
\* ------------------------------------------------------------------------
LifeInit ==
  /\ IdleAudit /\ IdleConfirm /\ IdleRegistry /\ IdleGrant /\ IdleRole
  /\ declared \in {"grant_database", "role"}

LifeNext ==
  \/ GrantEdit
  \/ GrantCreate
  \/ GrantRead
  \/ GrantUpdate
  \/ GrantDelete
  \/ RoleEdit
  \/ RoleDropped
  \/ RoleCreate
  \/ RoleRead
  \/ RoleDelete

LifeSpec == LifeInit /\ [][LifeNext]_vars

\* ------------------------------------------------------------------------
\* Specification of the resources: the configuration declares audit rules,
\* or a grant, or a role, and the runtime invokes their handlers
\* ------------------------------------------------------------------------
Init ==
  /\ IdleConfirm /\ IdleRegistry /\ IdleGrant /\ IdleRole
  /\ \/ declared = "audit_rule" /\ AudInit
     \/ declared \in {"grant_database", "role"} /\ IdleAudit

Next == AuditNext \/ LifeNext

Spec == Init /\ [][Next]_vars

\* ------------------------------------------------------------------------
\* Specification of the audit-rule handlers with scheduling: every database
\* call of an invoked handler returns and the handler goes on to its next
\* step (weak fairness of its steps); a handler blocked in
\* auditRuleDbMutex.Lock() gets the mutex when it is released again and again
\* (sync.Mutex hands the lock to a starving waiter: strong fairness). The
\* runtime is free to invoke nothing.
\* ------------------------------------------------------------------------
HandlerStep(p) ==
  \/ CreateInvoke(p)
  \/ CreateConfirm(p)
  \/ CreateList(p)
  \/ CreateListConfirm(p)
  \/ CreateCorrelate(p)
  \/ ReadQuery(p)
  \/ ReadConfirm(p)
  \/ UpdateInvoke(p)
  \/ UpdateConfirm(p)
  \/ DeleteInvoke(p)
  \/ DeleteConfirm(p)
  \/ Return(p)

\* two instances are declared, with rules that differ in case only; nothing
\* runs, no instance has a state, and the server, which has assigned the ids
\* below MaxId to rules dropped since, stores no rule
LiveInit ==
  /\ IdleConfirm /\ IdleRegistry /\ IdleGrant /\ IdleRole
  /\ declared = "audit_rule"
  /\ cfg = [p \in Procs |-> IF p % 2 = 1 THEN {FieldsLower} ELSE {FieldsUpper}]
  /\ auditRuleDbMutex = 0
  /\ pc = [p \in Procs |-> "idle"]
  /\ op = [p \in Procs |-> "none"]
  /\ plan = [p \in Procs |-> NoPlan]
  /\ tfstate = [p \in Procs |-> NoState]
  /\ diag = [p \in Procs |-> NoErr]
  /\ sessVars = [s \in Sessions |-> NullPair]
  /\ rowsConn = [p \in Procs |-> 0]
  /\ listRows = [p \in Procs |-> <<>>]
  /\ rules = <<>>
  /\ nextId = MaxId
  /\ wrote = [p \in Procs |-> NullPair]
  /\ readOut = [p \in Procs |-> <<>>]
  /\ stmts = [p \in Procs |-> <<>>]
  /\ createdId = [p \in Procs |-> 0]
  /\ producedId = [p \in Procs |-> 0]
  /\ updArgId = [p \in Procs |-> 0]

LiveSpec ==
  /\ LiveInit
  /\ [][AuditNext]_vars
  /\ \A p \in Procs : WF_vars(HandlerStep(p)) /\ SF_vars(Lock(p))

\* ------------------------------------------------------------------------
\* Specification of the connection registry (config.go)
\* ------------------------------------------------------------------------
RegInit ==
  /\ IdleAudit /\ IdleConfirm /\ IdleGrant /\ IdleRole
  /\ declared = "none"
  /\ RegStart /\ regCalls = [c \in Callers |-> 0]

\* a Configure calls connectToMySQLDb(dbName): dsn := Sprintf(dsnTemplate,
\* dbName); return c.connectToMySQL(dsn)
connectToMySQLDb(c) ==
  /\ regPc[c] = "idle"
  /\ regCalls[c] < MaxCalls
  /\ \E n \in DbNames : regDsn' = [regDsn EXCEPT ![c] = Sprintf(dsnTemplate, n)]
  /\ regCalls' = [regCalls EXCEPT ![c] = @ + 1]
  /\ regPc' = [regPc EXCEPT ![c] = "lock"]
  /\ regRet' = [regRet EXCEPT ![c] = NoReturn]
  /\ regDb' = [regDb EXCEPT ![c] = 0]
  /\ UNCHANGED <<dbRegistry, dbRegistryMutex, handles, opened, failed, returned>>
  /\ UNCHANGED <<audVars, cfVars, grantVars, roleVars, declVars>>

\* c.dbRegistryMutex.Lock(): blocks until the mutex is free
RegLockMutantNoWait(c) ==
  /\ regPc[c] = "lock"
  /\ dbRegistryMutex' = c
  /\ regPc' = [regPc EXCEPT ![c] = "lookup"]
  /\ UNCHANGED <<dbRegistry, regDsn, regDb, regRet, regCalls, handles, opened,
                 failed, returned>>
  /\ UNCHANGED <<audVars, cfVars, grantVars, roleVars, declVars>>

RegLock(c) ==
  /\ regPc[c] = "lock"
  /\ dbRegistryMutex = 0
  /\ dbRegistryMutex' = c
  /\ regPc' = [regPc EXCEPT ![c] = "lookup"]
  /\ UNCHANGED <<dbRegistry, regDsn, regDb, regRet, regCalls, handles, opened,
                 failed, returned>>
  /\ UNCHANGED <<audVars, cfVars, grantVars, roleVars, declVars>>

\* if c.dbRegistry[dsn] != nil { return c.dbRegistry[dsn], nil }
\* (a return runs the deferred Unlock)
RegLookupMutantAlwaysMiss(c) ==
  /\ regPc[c] = "lookup"
  /\ regPc' = [regPc EXCEPT ![c] = "open"]
  /\ UNCHANGED <<dbRegistry, dbRegistryMutex, regDsn, regDb, regRet, regCalls,
                 handles, opened, failed, returned>>
  /\ UNCHANGED <<audVars, cfVars, grantVars, roleVars, declVars>>

RegLookup(c) ==
  /\ regPc[c] = "lookup"
  /\ LET d == regDsn[c] IN
     IF dbRegistry[d] # 0
     THEN /\ regRet' = [regRet EXCEPT ![c] = MkReturn(d, dbRegistry[d], FALSE)]
          /\ returned' = [returned EXCEPT ![d] = @ \cup {dbRegistry[d]}]
          /\ dbRegistryMutex' = 0
          /\ regPc' = [regPc EXCEPT ![c] = "idle"]
     ELSE /\ regPc' = [regPc EXCEPT ![c] = "open"]
          /\ UNCHANGED <<regRet, returned, dbRegistryMutex>>
  /\ UNCHANGED <<dbRegistry, regDsn, regDb, regCalls, handles, opened, failed>>
  /\ UNCHANGED <<audVars, cfVars, grantVars, roleVars, declVars>>

\* db, err := sql.Open("cloudsql-mysql", dsn); if err != nil { return nil, err }
RegOpenMutantCachesFailure(c) ==
  /\ regPc[c] = "open"
  /\ LET d == regDsn[c] IN
     \/ /\ handles' = handles + 1
        /\ opened' = [opened EXCEPT ![d] = @ \cup {handles + 1}]
        /\ regDb' = [regDb EXCEPT ![c] = handles + 1]
        /\ regPc' = [regPc EXCEPT ![c] = "store"]
        /\ UNCHANGED <<regRet, failed, dbRegistryMutex, dbRegistry>>
     \/ /\ failed' = [failed EXCEPT ![d] = @ + 1]
        /\ handles' = handles + 1
        /\ dbRegistry' = [dbRegistry EXCEPT ![d] = handles + 1]
        /\ regRet' = [regRet EXCEPT ![c] = MkReturn(d, 0, TRUE)]
        /\ dbRegistryMutex' = 0
        /\ regPc' = [regPc EXCEPT ![c] = "idle"]
        /\ UNCHANGED <<opened, regDb>>
  /\ UNCHANGED <<regDsn, regCalls, returned>>
  /\ UNCHANGED <<audVars, cfVars, grantVars, roleVars, declVars>>

RegOpen(c) ==
  /\ regPc[c] = "open"
  /\ LET d == regDsn[c] IN
     \/ /\ handles' = handles + 1
        /\ opened' = [opened EXCEPT ![d] = @ \cup {handles + 1}]
        /\ regDb' = [regDb EXCEPT ![c] = handles + 1]
        /\ regPc' = [regPc EXCEPT ![c] = "store"]
        /\ UNCHANGED <<regRet, failed, dbRegistryMutex>>
     \/ /\ failed' = [failed EXCEPT ![d] = @ + 1]
        /\ regRet' = [regRet EXCEPT ![c] = MkReturn(d, 0, TRUE)]
        /\ dbRegistryMutex' = 0
        /\ regPc' = [regPc EXCEPT ![c] = "idle"]
        /\ UNCHANGED <<handles, opened, regDb>>
  /\ UNCHANGED <<dbRegistry, regDsn, regCalls, returned>>
  /\ UNCHANGED <<audVars, cfVars, grantVars, roleVars, declVars>>

\* c.dbRegistry[dsn] = db; return c.dbRegistry[dsn], nil
RegStore(c) ==
  /\ regPc[c] = "store"
  /\ LET d == regDsn[c] IN
     /\ dbRegistry' = [dbRegistry EXCEPT ![d] = regDb[c]]
     /\ regRet' = [regRet EXCEPT ![c] = MkReturn(d, regDb[c], FALSE)]
     /\ returned' = [returned EXCEPT ![d] = @ \cup {regDb[c]}]
  /\ dbRegistryMutex' = 0
  /\ regPc' = [regPc EXCEPT ![c] = "idle"]
  /\ UNCHANGED <<regDsn, regDb, regCalls, handles, opened, failed>>
  /\ UNCHANGED <<audVars, cfVars, grantVars, roleVars, declVars>>

RegNext ==
  \E c \in Callers :
    \/ connectToMySQLDb(c)
    \/ RegLock(c)
    \/ RegLookup(c)
    \/ RegOpen(c)
    \/ RegStore(c)

RegSpec == RegInit /\ [][RegNext]_vars

\* ------------------------------------------------------------------------
\* Properties of the audit-rule resource
\* ------------------------------------------------------------------------
Last(seq) == seq[Len(seq)]

Count(seq, x) == Cardinality({i \in 1..Len(seq) : seq[i] = x})

\* the operation has just run a Confirm whose SELECT returned a pair
JustConfirmed(p) ==
  /\ stmts[p] # <<>> /\ Last(stmts[p]) = "confirm"
  /\ ~Last(readOut[p]).drv

\* the five-field, case-insensitive comparison of a listed row with a plan
RowMatchesPlan(row, f) ==
  /\ ToLower(row.User) = ToLower(f.User)
  /\ ToLower(row.Dbname) = ToLower(f.Database)
  /\ ToLower(row.Object) = ToLower(f.Object)
  /\ ToLower(row.Operation) = ToLower(f.Operation)
  /\ ToLower(row.OpResult) = ToLower(f.OpsResult)

\* a Create that has returned from its scan loop without a rows.Scan error
CreateScanned(p) ==
  /\ pc[p] = "ret" /\ op[p] = "Create"
  /\ Len(readOut[p]) = 2
  /\ ~readOut[p][1].ret.err /\ ~readOut[p][2].ret.err
  /\ diag[p].msg # "scan"

\* C1: in every audit-rule operation, the pair (@outval, @outmsg) a Confirm
\* reads is the pair written by the procedure call the same operation issued
\* immediately before it.
ConfirmReadsOwnOutcome ==
  \A p \in Procs : JustConfirmed(p) => Last(readOut[p]).pair = wrote[p]

\* C2: an operation holds auditRuleDbMutex from before its first statement
\* until after its last one: whoever is between Lock and Return is the holder
\* (so at most one operation is), and every statement is issued by the holder,
\* who still holds the mutex afterwards.
InCriticalSection(p) == pc[p] \notin {"idle", "lock"}

MutexSpansStatements ==
  /\ [](\A p \in Procs : InCriticalSection(p) => auditRuleDbMutex = p)
  /\ [][\A p \in Procs :
          stmts'[p] # stmts[p] /\ stmts'[p] # <<>>
            => auditRuleDbMutex = p /\ auditRuleDbMutex' = p]_vars

\* one operation is between its invoke and its confirm while another,
\* invoked concurrently, waits for the mutex
MutexContended ==
  \E p, q \in Procs :
    /\ p # q
    /\ pc[p] \in {"confirm", "listConfirm", "scan"}
    /\ pc[q] = "lock"

\* C3: a Create whose create outcome and list outcome both have status 0 and
\* whose listing holds a row equal to the plan case-insensitively succeeds, and
\* the persisted state is the planned fields with the id of the first such row.
CreateAdoptsFirstMatch ==
  \A p \in Procs :
    ( /\ CreateScanned(p)
      /\ \A i \in 1..2 : ~readOut[p][i].pair.null /\ readOut[p][i].pair.outval = 0
      /\ \E i \in 1..Len(listRows[p]) : RowMatchesPlan(listRows[p][i], plan[p].f) )
    => /\ ~diag[p].err
       /\ tfstate[p].exists
       /\ tfstate[p].f = plan[p].f
       /\ \E i \in 1..Len(listRows[p]) :
            /\ RowMatchesPlan(listRows[p][i], plan[p].f)
            /\ \A j \in 1..(i - 1) : ~RowMatchesPlan(listRows[p][j], plan[p].f)
            /\ tfstate[p].Id = KnownId(listRows[p][i].Id)

\* a Create succeeded on a listing with two matching rows, the first of which
\* differs from the plan in case
CreateMatchedSecondOfTwo ==
  \E p \in Procs :
    /\ CreateScanned(p) /\ ~diag[p].err
    /\ Len(listRows[p]) = 2
    /\ RowMatchesPlan(listRows[p][1], plan[p].f)
    /\ RowMatchesPlan(listRows[p][2], plan[p].f)
    /\ RowFields(listRows[p][1]) # plan[p].f

\* C4: a Create whose create outcome is status 1 with message m ends with an
\* error whose detail is m, never issues the list call and writes no state.
CreateFailureStopsBeforeList ==
  \A p \in Procs :
    ( /\ op[p] = "Create"
      /\ Len(readOut[p]) >= 1
      /\ ~readOut[p][1].drv
      /\ ~readOut[p][1].pair.null /\ readOut[p][1].pair.outval = 1 )
    => /\ pc[p] = "ret"
       /\ diag[p] = MkErr(readOut[p][1].pair.outmsg)
       /\ Count(stmts[p], "list") = 0
       /\ ~tfstate[p].exists

\* a Create read status 1 with message "x" at its first Confirm
CreateReadFailure ==
  \E p \in Procs :
    /\ op[p] = "Create" /\ pc[p] = "ret"
    /\ Len(readOut[p]) = 1
    /\ readOut[p][1].pair = FailPair

\* C5: a Create whose calls and confirmations succeed but whose listing holds
\* no row equal to the plan ends with the "not found after creation" error,
\* persists no state, and has issued the create and the list call once each.
CreateCorrelationMiss ==
  \A p \in Procs :
    ( /\ CreateScanned(p)
      /\ \A i \in 1..Len(listRows[p]) : ~RowMatchesPlan(listRows[p][i], plan[p].f) )
    => /\ diag[p] = MkErr("the audit rule is not found after creation")
       /\ ~tfstate[p].exists
       /\ Count(stmts[p], "create") = 1
       /\ Count(stmts[p], "list") = 1

\* a Create scanned a non-empty listing to its end without a match
CreateMissedOnNonEmptyListing ==
  \E p \in Procs :
    /\ CreateScanned(p)
    /\ Len(listRows[p]) >= 1
    /\ \A i \in 1..Len(listRows[p]) : ~RowMatchesPlan(listRows[p][i], plan[p].f)

\* C7: the id of an audit rule is stable: the persisted id is the id assigned
\* at creation, and Update passes that id to cloudsql_update_audit_rule.
AuditRuleIdStable ==
  \A p \in Procs :
    /\ tfstate[p].exists => tfstate[p].Id = KnownId(createdId[p])
    /\ (op[p] = "Update" /\ Count(stmts[p], "update") > 0)
         => updArgId[p] = createdId[p]

\* ------------------------------------------------------------------------
\* Properties of the Confirm step
\* ------------------------------------------------------------------------
\* the SELECT of the Confirm step ran and returned its row
ConfirmRan == cfRet # NotRun /\ ~cfDrv

\* the error that carries @outmsg (the empty text when @outmsg is NULL)
CarriesOutmsg == cfRet = MkErr(IF cfPair.msgnull THEN "" ELSE cfPair.outmsg)

\* C6 as stated: for every value of @outval, negative values and NULL
\* included, the Confirm step returns an error carrying @outmsg exactly when
\* the status code is nonzero.
ConfirmFailsIffNonzero ==
  ConfirmRan => (CarriesOutmsg <=> (~cfPair.null /\ cfPair.outval # 0))

\* C6 as amended: for every @outval that fits 16 bits the Confirm step returns
\* an error carrying @outmsg exactly when @outval is positive, and nil for
\* NULL, zero and every negative value; for a value outside 16 bits it returns
\* the conversion error of Scan.
ConfirmFailsIffPositive ==
  ConfirmRan =>
    IF FitsInt16(cfPair)
    THEN /\ CarriesOutmsg <=> (~cfPair.null /\ cfPair.outval > 0)
         /\ ~CarriesOutmsg => cfRet = NoErr
    ELSE cfRet.err /\ ~CarriesOutmsg

\* the Confirm step returned nil on a negative status
ConfirmPassedNegative ==
  /\ ConfirmRan
  /\ ~cfPair.null /\ cfPair.outval < 0 /\ cfPair.outval >= MinInt16
  /\ cfRet = NoErr

\* ------------------------------------------------------------------------
\* Properties of the grant resource
\* ------------------------------------------------------------------------
\* the last Read succeeded and the row is as that Read saw it
ReadDone == gReads >= 1

FoldSet(q) == {ToLower(q[i]) : i \in 1..Len(q)}

\* C8: the reconciliation of Read is a fixed point: reconciling its own
\* output against the same observed list changes nothing, and so a second
\* Read against an unchanged row leaves the persisted privileges unchanged.
ReconcileFixedPoint ==
  /\ [](gRow.present =>
          LET O == allPrivileges(gRow.flags)
              R == reconcile(gState.Privileges, O) IN
          reconcile(R, O) = R)
  /\ [][(gReads >= 1 /\ gReads' >= 1) =>
          gState'.Privileges = gState.Privileges]_vars

\* two Reads in a row on a row with several privileges, one of them kept in
\* the spelling of the configuration
SecondReadDone ==
  /\ gReads = 2
  /\ Len(gObserved) >= 2
  /\ \E i \in 1..Len(gObserved) : gState.Privileges[i] # gObserved[i]

\* C9: after Read the persisted privileges are, case-insensitively, exactly
\* the observed ones: same length, same order, nothing added and nothing
\* dropped; a desired privilege that is not observed is not persisted.
ReadPersistsObserved ==
  ReadDone =>
    /\ gObserved = allPrivileges(gRow.flags)
    /\ Len(gState.Privileges) = Len(gObserved)
    /\ \A i \in 1..Len(gObserved) :
         ToLower(gState.Privileges[i]) = ToLower(gObserved[i])
    /\ FoldSet(gState.Privileges) = FoldSet(gObserved)

\* a Read dropped a desired privilege the row does not hold and adopted an
\* observed one the configuration did not name
ReadDroppedAndAdopted ==
  /\ ReadDone
  /\ \E i \in 1..Len(gDesired) : ToLower(gDesired[i]) \notin FoldSet(gObserved)
  /\ \E i \in 1..Len(gObserved) : ToLower(gObserved[i]) \notin FoldSet(gDesired)
  /\ \E i \in 1..Len(gObserved) : ToLower(gObserved[i]) \in FoldSet(gDesired)

\* C10: for each observed privilege Read persists the first desired entry equal
\* to it case-insensitively, in the desired spelling, and the observed
\* spelling when no desired entry is equal to it.
ReadKeepsDesiredSpelling ==
  ReadDone =>
    /\ \A i \in 1..Len(gObserved) :
         LET hits == {j \in 1..Len(gDesired) :
                        ToLower(gDesired[j]) = ToLower(gObserved[i])} IN
         /\ i <= Len(gState.Privileges)
         /\ IF hits = {}
            THEN gState.Privileges[i] = gObserved[i]
            ELSE \E j \in hits :
                   /\ \A k \in hits : j <= k
                   /\ gState.Privileges[i] = gDesired[j]
    /\ (gDesired = <<"select">> /\ gObserved = <<"SELECT">>)
         => gState.Privileges = <<"select">>
    /\ (gDesired = <<>> /\ gObserved = <<"SELECT", "INSERT">>)
         => gState.Privileges = <<"SELECT", "INSERT">>

\* a Read met two desired spellings of one observed privilege and kept the
\* first, next to an observed privilege it adopted verbatim
ReadKeptFirstSpelling ==
  /\ ReadDone
  /\ gDesired = <<"select", "SELECT">>
  /\ gObserved = <<"SELECT", "INSERT">>
  /\ gState.Privileges = <<"select", "INSERT">>

\* C11: a grant Read surfaces an error and writes no state whenever the
\* observed row yields zero privileges (the row is missing, or it exists and
\* none of its privilege flags is "Y"): a Read that succeeded saw a row with
\* at least one privilege, and an empty privilege set was not persisted.
ReadErrorsOnZeroPrivileges ==
  ReadDone =>
    /\ gRow.present
    /\ allPrivileges(gRow.flags) # <<>>
    /\ gState.Privileges # <<>>

\* ------------------------------------------------------------------------
\* Properties of the connection registry
\* ------------------------------------------------------------------------
\* the caller is between the lookup and the return of connectToMySQL
InLookupOrCreate(c) == regPc[c] \in {"lookup", "open", "store"}

\* C14: all successful connectToMySQL calls with one connection string return
\* the same handle, and once sql.Open has succeeded for a string it is never
\* invoked for that string again; a stored entry is never evicted or replaced.
RegistryReusesHandle ==
  /\ [](\A d \in Dsns : Cardinality(returned[d]) <= 1)
  /\ [](\A c1, c2 \in Callers :
          ( /\ regRet[c1].db # 0 /\ regRet[c2].db # 0
            /\ regRet[c1].dsn = regRet[c2].dsn )
          => regRet[c1].db = regRet[c2].db)
  /\ [][\A d \in Dsns :
          /\ opened[d] # {} => opened'[d] = opened[d] /\ failed'[d] = failed[d]
          /\ dbRegistry[d] # 0 => dbRegistry'[d] = dbRegistry[d]]_vars

\* two callers hold the same handle for one string, the second obtained from
\* the registry, while the other string has a handle of its own
RegistryHandleShared ==
  \E c1, c2 \in Callers :
    /\ c1 # c2
    /\ regPc[c1] = "idle" /\ regPc[c2] = "idle"
    /\ regRet[c1].db # 0
    /\ regRet[c1] = regRet[c2]
    /\ handles = 2
    /\ \A d \in Dsns : dbRegistry[d] # 0

\* C15: under every interleaving of concurrent connectToMySQL calls the
\* lookup-or-create step is mutually exclusive, at most one handle is created
\* and stored for a string, and every caller receives the stored handle.
RegistryMutualExclusion ==
  /\ \A c1, c2 \in Callers :
       InLookupOrCreate(c1) /\ InLookupOrCreate(c2) => c1 = c2
  /\ \A c \in Callers : InLookupOrCreate(c) => dbRegistryMutex = c
  /\ \A d \in Dsns :
       /\ Cardinality(opened[d]) <= 1
       /\ dbRegistry[d] # 0 => opened[d] = {dbRegistry[d]}
  /\ \A c \in Callers :
       regRet[c].db # 0 => regRet[c].db = dbRegistry[regRet[c].dsn]

\* one caller is opening or storing the handle of a string while another,
\* called concurrently with the same string, waits for the mutex
RegistryContended ==
  \E c1, c2 \in Callers :
    /\ c1 # c2
    /\ regDsn[c1] = regDsn[c2]
    /\ regPc[c1] \in {"open", "store"}
    /\ regPc[c2] = "lock"

\* C16: when sql.Open fails, connectToMySQL returns (nil, err), leaves the
\* registry map as it was, releases the mutex, and a later call with the same
\* string (no entry being stored for it) calls sql.Open again.
RegistryOpenFailure ==
  /\ [][\A c \in Callers :
          (regPc[c] = "open" /\ regRet'[c].err)
            => /\ regRet'[c] = MkReturn(regDsn[c], 0, TRUE)
               /\ dbRegistry' = dbRegistry
               /\ dbRegistryMutex' = 0
               /\ regPc'[c] = "idle"]_vars
  /\ [][\A c \in Callers :
          ( /\ regPc[c] = "lookup" /\ regPc'[c] # "lookup"
            /\ failed[regDsn[c]] > 0 /\ opened[regDsn[c]] = {} )
            => regPc'[c] = "open"]_vars
  /\ [](\A d \in Dsns : opened[d] = {} => dbRegistry[d] = 0)

\* sql.Open failed for a string, and a later call with that string opened
\* and stored a handle
RegistryReopenedAfterFailure ==
  \E d \in Dsns :
    /\ failed[d] >= 1
    /\ dbRegistry[d] # 0
    /\ \E c \in Callers : regRet[c] = MkReturn(d, 0, TRUE)

\* ------------------------------------------------------------------------
\* Properties of the grant and the role over their lives
\* ------------------------------------------------------------------------
\* user and role are both set, or neither is
BothOrNeither(m) == m.User.null = m.Role.null

\* C12: creating a grant whose configuration sets both user and role, or
\* neither, fails before any SQL is issued: the invocation ends with an error,
\* no GRANT statement has reached ExecContext and no state is written.
GrantCreateValidated ==
  (gOp = "Create" /\ BothOrNeither(gConfig))
    => /\ gDiag.err
       /\ gStmts = <<>>
       /\ ~gExists

\* a create of a grant with user and role both set was rejected
GrantCreateRejectedBoth ==
  /\ gOp = "Create"
  /\ ~gConfig.User.null /\ ~gConfig.Role.null
  /\ gDiag.err

\* C13: Update is unreachable for the grant and the role: every attribute of
\* either schema is replace-triggering, so no change of any attribute leads
\* the runtime to invoke Update, and no planned change is reported as applied
\* without a statement being issued.
UpdateUnreachable ==
  /\ gOp # "Update"
  /\ rOp # "Update"
  /\ \A a \in DOMAIN RoleSchema : PlannedAction(RoleSchema, {a}) = "replace"
  /\ (gExists /\ gOp \notin {"none", "Read"} /\ ~gDiag.err) => gStmts # <<>>

\* ------------------------------------------------------------------------
\* Properties of every resource
\* ------------------------------------------------------------------------
IsPrefix(a, b) == Len(a) <= Len(b) /\ a = SubSeq(b, 1, Len(a))

\* the statements each handler issues, in order, when nothing fails
AuditProgram(o) ==
  CASE o = "Create" -> <<"create", "confirm", "list", "confirm">>
    [] o = "Read" -> <<"listid", "confirm">>
    [] o = "Update" -> <<"update", "confirm">>
    [] o = "Delete" -> <<"delete", "confirm">>
    [] OTHER -> <<>>

GrantProgram(o) ==
  CASE o = "Create" -> <<"GRANT">>
    [] o = "Read" -> <<"SELECT">>
    [] o = "Delete" -> <<"REVOKE">>
    [] OTHER -> <<>>

RoleProgram(o) ==
  CASE o = "Create" -> <<"CREATE ROLE">>
    [] o = "Read" -> <<"SHOW GRANTS">>
    [] o = "Delete" -> <<"DROP ROLE">>
    [] OTHER -> <<>>

\* C17: no handler retries: the statements an operation has issued are a
\* prefix of its handler's statements, each issued at most once, and the
\* first failure (a driver error, an outcome error of a Confirm, not-found, a
\* correlation miss) ends the operation with that error, after which it
\* issues no statement.
NoRetries ==
  /\ [](\A p \in Procs :
          /\ IsPrefix(stmts[p], AuditProgram(op[p]))
          /\ diag[p].err => pc[p] = "ret"
          /\ \A i \in 1..Len(readOut[p]) :
               readOut[p][i].ret.err
                 => i = Len(readOut[p]) /\ diag[p] = readOut[p][i].ret)
  /\ [](IsPrefix(gStmts, GrantProgram(gOp)) /\ IsPrefix(rStmts, RoleProgram(rOp)))
  /\ [][\A p \in Procs :
          diag[p].err => (stmts'[p] = stmts[p] \/ stmts'[p] = <<>>)]_vars

\* a Create whose list call failed in the driver, after the create call and
\* its Confirm had succeeded, has returned with the error
CreateStoppedAtList ==
  \E p \in Procs :
    /\ op[p] = "Create" /\ pc[p] = "ret"
    /\ stmts[p] = <<"create", "confirm", "list">>
    /\ diag[p] = MkErr("driver")
    /\ Len(rules) >= 1

\* C20: no partial success: a handler that reports an error leaves the state
\* as it was; the state is written only as the last step of a handler all of
\* whose statements were issued and none of which failed; in particular a
\* Create that ends with an error persists no id, also when the create
\* procedure had stored the rule.
NoPartialSuccess ==
  /\ [][\A p \in Procs :
          /\ diag'[p].err => tfstate'[p] = tfstate[p]
          /\ tfstate'[p] # tfstate[p]
               => /\ ~diag'[p].err
                  /\ pc'[p] = "ret"
                  /\ stmts'[p] = AuditProgram(op[p])
                  /\ \A i \in 1..Len(readOut'[p]) : ~readOut'[p][i].ret.err]_vars
  /\ [][/\ gDiag'.err => (gState' = gState /\ gExists' = gExists)
        /\ (gState' # gState \/ gExists' # gExists)
             => ~gDiag'.err /\ gStmts' = GrantProgram(gOp')
        /\ rDiag'.err => rState' = rState
        /\ rState' # rState => ~rDiag'.err /\ rStmts' = RoleProgram(rOp')]_vars
  /\ [](\A p \in Procs : (op[p] = "Create" /\ diag[p].err) => ~tfstate[p].exists)

\* a Create stored its rule on the server and confirmed it, the Confirm of
\* its list call failed, and it returned an error with no state
CreateFailedAfterRuleStored ==
  \E p \in Procs :
    /\ op[p] = "Create" /\ pc[p] = "ret"
    /\ Len(readOut[p]) = 2
    /\ ~readOut[p][1].ret.err /\ readOut[p][2].ret.err
    /\ \E i \in 1..Len(rules) : RowFields(rules[i]) = plan[p].f
    /\ diag[p].err
    /\ ~tfstate[p].exists

\* ------------------------------------------------------------------------
\* Properties of the privilege decode
\* ------------------------------------------------------------------------
\* the position of a keyword in the catalog
KwIndex(kw) == CHOOSE i \in 1..Len(Catalog) : Catalog[i].kw = kw

\* C18: the decode of a row emits a privilege exactly when its flag column is
\* "Y" (any other value, malformed or empty, is not granted, and the only
\* errors of Read are those of the query and of the missing principal), in
\* the catalog order SELECT, INSERT, UPDATE, DELETE, CREATE, DROP, REFERENCES,
\* INDEX, ALTER, CREATE TEMPORARY TABLES, LOCK TABLES, CREATE VIEW, SHOW VIEW,
\* CREATE ROUTINE, ALTER ROUTINE, EXECUTE, EVENT, TRIGGER, emits nothing for
\* Grant_priv, and yields the same sequence when the row is decoded again.
DecodeByCatalog ==
  ReadDone =>
    /\ gDiag.err => gDiag \in {MkErr("driver"), MkErr("sql: no rows in result set"),
                               MkErr("user nor role are not filled in")}
    /\ \A i \in 1..Len(Catalog) :
         (\E k \in 1..Len(gObserved) : gObserved[k] = Catalog[i].kw)
           <=> gRow.flags[Catalog[i].col] = "Y"
    /\ \A k \in 1..Len(gObserved) :
         /\ \E i \in 1..Len(Catalog) : gObserved[k] = Catalog[i].kw
         /\ \A j \in 1..(k - 1) : KwIndex(gObserved[j]) < KwIndex(gObserved[k])
    /\ \A i \in 1..Len(Catalog) : Catalog[i].col # "Grant_priv"
    /\ gRow.flags = AllYes
         => gObserved =
              << "SELECT", "INSERT", "UPDATE", "DELETE", "CREATE", "DROP",
                 "REFERENCES", "INDEX", "ALTER", "CREATE TEMPORARY TABLES",
                 "LOCK TABLES", "CREATE VIEW", "SHOW VIEW", "CREATE ROUTINE",
                 "ALTER ROUTINE", "EXECUTE", "EVENT", "TRIGGER" >>
    /\ gObserved = allPrivileges(gRow.flags)

\* a row with a malformed flag, an empty flag and Grant_priv set was decoded
\* twice
DecodedMalformedRow ==
  /\ gReads = 2
  /\ gRow.flags["Select_priv"] = "y"
  /\ gRow.flags["Trigger_priv"] = ""
  /\ gRow.flags["Grant_priv"] = "Y"
  /\ gObserved = <<"INSERT", "UPDATE">>

\* C19: after a successful Read the persisted with_grant_option is
\* (Grant_priv = "Y") of the observed row, whatever the value persisted
\* before and whatever the configuration asks for.
ReadOverridesGrantOption ==
  ReadDone => gState.WithGrantOption = (gRow.flags["Grant_priv"] = "Y")

\* a Read replaced a persisted with_grant_option of true by the false of the
\* row
ReadClearedGrantOption ==
  /\ ReadDone
  /\ gPriorOption = TRUE
  /\ gRow.flags["Grant_priv"] = "N"
  /\ gState.WithGrantOption = FALSE

\* ------------------------------------------------------------------------
\* Properties of the ids of audit rules
\* ------------------------------------------------------------------------
\* C21: a Create that succeeds after its create call stored a rule persists
\* the id of that rule, and no other resource instance holds the same id,
\* also when the listing already has a row whose five fields equal the
\* plan's under case folding.
CreateHoldsOwnId ==
  \A p \in Procs :
    (op[p] = "Create" /\ pc[p] = "ret" /\ ~diag[p].err /\ producedId[p] # 0)
      => /\ tfstate[p].Id = KnownId(producedId[p])
         /\ \A q \in Procs \ {p} :
              tfstate[q].exists => tfstate[q].Id # tfstate[p].Id

\* ------------------------------------------------------------------------
\* Properties of the termination of the audit-rule handlers
\* ------------------------------------------------------------------------
\* C22: every audit-rule handler releases auditRuleDbMutex on every exit path:
\* the mutex is free whenever no operation is between Lock and Return,
\* whatever the outcome of the operations before, and, given that every
\* database call returns, every invoked operation eventually completes.
AuditOpsComplete ==
  /\ []((\A p \in Procs : ~InCriticalSection(p)) => auditRuleDbMutex = 0)
  /\ \A p \in Procs : (pc[p] # "idle") ~> (pc[p] = "idle")

\* a Create stored its rule and ended with an error, and a Create invoked
\* after it holds the mutex
LockTakenAfterFailedCreate ==
  \E p, q \in Procs :
    /\ p # q
    /\ pc[p] = "idle" /\ ~tfstate[p].exists
    /\ auditRuleDbMutex = q /\ pc[q] = "invoke" /\ op[q] = "Create"
    /\ ~tfstate[q].exists
    /\ Len(rules) = 1

====
